---- MODULE Spec2Model ----
(***************************************************************************)
(* Model of HallOfShame.Run (src/main.go): one listing of the workloads,   *)
(* one goroutine per workload under a sizedwaitgroup of size 2, the        *)
(* unsynchronised append to the shared slice appStats, the join, the sort  *)
(* by ratio and the rendering of the table.                                *)
(*                                                                         *)
(* A worker unit is identified by the position of its workload in          *)
(* res.Resources.  The platform (the listing, whether listing it failed,   *)
(* the per-GUID stats responses and the GUIDs whose request never answers) *)
(* is fixed in the initial state and never changes.                        *)
(*                                                                         *)
(* The specifications share Next and differ in the platforms they start    *)
(* from: Spec (concurrent runs), SpecCalc and SpecDecl (one workload, the  *)
(* whole bounded stats domain), SpecNil (nil Metadata or Entity), SpecFair *)
(* and SpecHung (the scheduler's fairness, without and with requests that  *)
(* never answer).                                                          *)
(*                                                                         *)
(* An optional value (a nil pointer, a local that is not yet assigned) is  *)
(* a sequence of length 0 or 1.                                            *)
(*                                                                         *)
(* A float64 ratio float64(a)/float64(b) with a, b >= 0 is the pair        *)
(* [num |-> a, den |-> b]: den > 0 is the finite quotient, den = 0 with    *)
(* num > 0 is +Inf and 0/0 is NaN.  At the sizes explored here the         *)
(* comparison of two finite float64 quotients agrees with the comparison   *)
(* of the exact rationals.                                                 *)
(***************************************************************************)
EXTENDS Integers, Sequences, FiniteSets, TLC

\* ---------------------------------------------------------------- bounds
MaxApps == 3
MaxQuota == 2
MaxMem == 2
MaxDeclared == 3

\* ------------------------------------------------------ program constants
PoolSize == 2

InstanceKeys == {"0", "1"}
States == {"RUNNING", "DOWN"}

\* ------------------------------------------------------------ data model
\* AppStat, reduced to the fields Run reads.
InstanceStats ==
  [State : States, MemQuota : 0..MaxQuota, Mem : 0..MaxMem]

\* The zero value Go returns for a key that is absent from the map.
ZeroAppStat == [State |-> "", MemQuota |-> 0, Mem |-> 0]

Lookup(m, k) == IF k \in DOMAIN m THEN m[k] ELSE ZeroAppStat

\* map[string]AppStat values
StatsMaps == UNION {[K -> InstanceStats] : K \in SUBSET InstanceKeys}

EmptyMap == CHOOSE m \in StatsMaps : DOMAIN m = {}

\* What GetAppStats returns: (statResult, err).  json.Unmarshal reports a
\* type error after filling what it could, so an error may come with a
\* map that is not empty.
Response(e, m) == [err |-> e, m |-> m]

AllResponses == {Response(e, m) : e \in BOOLEAN, m \in StatsMaps}

OneInstance(st, q, u) ==
  [k \in {"0"} |-> [State |-> st, MemQuota |-> q, Mem |-> u]]

\* The responses used when several workloads run concurrently: an error
\* with an empty and with a filled map, a map with no instance, and RUNNING
\* maps with ratio NaN, +Inf, 1 and 2.
RunResponses ==
  {Response(TRUE, EmptyMap),
   Response(TRUE, OneInstance("RUNNING", 2, 1)),
   Response(FALSE, EmptyMap)}
    \cup {Response(FALSE, OneInstance("RUNNING", qu[1], qu[2])) :
            qu \in {<<0, 0>>, <<1, 0>>, <<1, 1>>, <<2, 1>>}}

\* The responses used under fairness: an error, a map with no instance and
\* a RUNNING map with ratio 1.
LiveResponses ==
  {Response(TRUE, EmptyMap),
   Response(FALSE, EmptyMap),
   Response(FALSE, OneInstance("RUNNING", 1, 1))}

\* A well-formed element of res.Resources; the GUID of the i-th listed
\* workload is i.
Resource(i) ==
  [Metadata |-> <<[Guid |-> i]>>,
   Entity |-> <<[Name |-> i, Instances |-> 1, SpaceGuid |-> "space"]>>]

Listing(n) == [i \in 1..n |-> Resource(i)]

\* An element whose "metadata" or "entity" key was absent or null in the
\* JSON: the pointer stays nil.
ResourceOpt(i, hasMetadata, hasEntity) ==
  [Metadata |-> IF hasMetadata THEN Resource(i).Metadata ELSE <<>>,
   Entity |-> IF hasEntity THEN Resource(i).Entity ELSE <<>>]

\* The same with a declared instance count of n.
ResourceDecl(i, n) ==
  [Metadata |-> <<[Guid |-> i]>>,
   Entity |-> <<[Name |-> i, Instances |-> n, SpaceGuid |-> "space"]>>]

\* Three RUNNING instances with quota 600 using 100, 200 and 300.
ExampleStats ==
  [k \in {"0", "1", "2"} |->
     [State |-> "RUNNING",
      MemQuota |-> 600,
      Mem |-> IF k = "0" THEN 100 ELSE IF k = "1" THEN 200 ELSE 300]]

VARIABLES
  listing,   \* platform: what the answer of GET /v2/apps parses to
  listErr,   \* platform: the transport or the parse of the listing failed
  hung,      \* platform: GUIDs whose stats request never answers
  backend,   \* platform: GUID -> what GET /v2/apps/GUID/stats answers
  mainPc,    \* position of Run
  res,       \* res.Resources
  idx,       \* next element of the range loop
  current,   \* sizedwaitgroup: occupied slots
  wgCount,   \* sizedwaitgroup: inner WaitGroup counter
  pc,        \* position of each worker unit
  stats,     \* per unit: (stats, err) once GetAppStats has returned
  stat,      \* per unit: the summary it built
  rd,        \* per unit: the slice value read by append
  appStats,  \* the shared result slice
  bar,       \* progress bar
  table,     \* rows appended to the table; rendered flag
  crashed    \* a goroutine panicked: the process is gone

vars == <<listing, listErr, hung, backend, mainPc, res, idx, current, wgCount, pc, stats,
          stat, rd, appStats, bar, table, crashed>>

Units == 1..Len(listing)

\* ------------------------------------------------------- pure functions
RECURSIVE SumMem(_, _)
SumMem(m, keys) ==
  IF keys = {} THEN 0
  ELSE LET k == CHOOSE x \in keys : TRUE
       IN m[k].Mem + SumMem(m, keys \ {k})

TotalUsage(m) == SumMem(m, DOMAIN m)

Ratio(memAlloc, avg) == [num |-> memAlloc, den |-> avg]

IsNaN(r) == r.den = 0 /\ r.num = 0
IsInf(r) == r.den = 0 /\ r.num > 0
IsFinite(r) == r.den > 0

\* x < y on float64
FLess(x, y) ==
  IF IsNaN(x) \/ IsNaN(y) THEN FALSE
  ELSE IF IsInf(x) THEN FALSE
  ELSE IF IsInf(y) THEN TRUE
  ELSE x.num * y.den < y.num * x.den

\* x >= y on float64
FGeq(x, y) ==
  IF IsNaN(x) \/ IsNaN(y) THEN FALSE
  ELSE IF IsInf(x) THEN TRUE
  ELSE IF IsInf(y) THEN FALSE
  ELSE x.num * y.den >= y.num * x.den

\* Variant: the average divides by the declared instance count.
MkSummaryDeclaredDivisor(cfApp, m) ==
  LET memAlloc == Lookup(m, "0").MemQuota
      n == cfApp.Entity[1].Instances
      avg == TotalUsage(m) \div (IF n = 0 THEN 1 ELSE n)
  IN [Name |-> cfApp.Entity[1].Name,
      GUID |-> cfApp.Metadata[1].Guid,
      Space |-> cfApp.Entity[1].SpaceGuid,
      Instances |-> cfApp.Entity[1].Instances,
      MemoryAlloc |-> memAlloc,
      AvgMemoryUse |-> avg,
      Ratio |-> Ratio(memAlloc, avg)]

\* The struct literal of lines 123-131, for a map with at least one entry.
MkSummary(cfApp, m) ==
  LET memAlloc == Lookup(m, "0").MemQuota
      avg == TotalUsage(m) \div Cardinality(DOMAIN m)
  IN [Name |-> cfApp.Entity[1].Name,
      GUID |-> cfApp.Metadata[1].Guid,
      Space |-> cfApp.Entity[1].SpaceGuid,
      Instances |-> cfApp.Entity[1].Instances,
      MemoryAlloc |-> memAlloc,
      AvgMemoryUse |-> avg,
      Ratio |-> Ratio(memAlloc, avg)]

\* byRatio
Less(a, i, j) == FLess(a[j].Ratio, a[i].Ratio)

Swap(a, i, j) == [a EXCEPT ![i] = a[j], ![j] = a[i]]

\* sort.Sort on fewer than 12 elements is an insertion sort driven by Less
\* and Swap (indices are 1-based here).
RECURSIVE SiftDown(_, _)
SiftDown(a, j) ==
  IF j > 1 /\ Less(a, j, j - 1) THEN SiftDown(Swap(a, j, j - 1), j - 1)
  ELSE a

RECURSIVE InsertionSort(_, _)
InsertionSort(a, i) ==
  IF i > Len(a) THEN a ELSE InsertionSort(SiftDown(a, i), i + 1)

SortByRatio(a) == InsertionSort(a, 2)

\* fmt.Sprintf("%f", r): six decimals, rounded to nearest.
FormatF(r) ==
  IF IsNaN(r) THEN <<"NaN">>
  ELSE IF IsInf(r) THEN <<"+Inf">>
  ELSE LET micro == (2 * 1000000 * r.num + r.den) \div (2 * r.den)
       IN <<micro \div 1000000, micro % 1000000>>

toValueList(s) ==
  <<s.Name, s.Space, s.MemoryAlloc, s.AvgMemoryUse, FormatF(s.Ratio)>>

\* ---------------------------------------------------------- the platform
GetAppStats(guid) == backend[guid]

\* ------------------------------------------------------------ initial
InitRun ==
  /\ mainPc = "list"
  /\ res = <<>>
  /\ idx = 1
  /\ current = 0
  /\ wgCount = 0
  /\ pc = [i \in Units |-> "idle"]
  /\ stats = [i \in Units |-> <<>>]
  /\ stat = [i \in Units |-> <<>>]
  /\ rd = [i \in Units |-> <<>>]
  /\ appStats = <<>>
  /\ bar = [total |-> 0, current |-> 0, finished |-> FALSE]
  /\ table = [rows |-> <<>>, rendered |-> FALSE]
  /\ crashed = FALSE

\* Up to MaxApps workloads, answers drawn from RunResponses.
Init ==
  /\ \E n \in 0..MaxApps :
       /\ listing = Listing(n)
       /\ backend \in [1..n -> RunResponses]
  /\ listErr \in BOOLEAN
  /\ hung = {}
  /\ InitRun

\* One workload, every answer of the bounded stats domain.
InitCalc ==
  /\ listing = Listing(1)
  /\ backend \in [1..1 -> AllResponses]
  /\ listErr = FALSE
  /\ hung = {}
  /\ InitRun

\* ------------------------------------------------------------ Run
\* Variant: GetAllApps hands the failure to its caller.
GetAllAppsErrPropagated(failed) == failed

\* Lines 180-184: the error of the command is dropped (output, _), the
\* error of json.Unmarshal is not looked at, and the function returns nil.
GetAllAppsErr(failed) == FALSE

\* Lines 90-95: the listing, panic(err) on an error, and the bar started
\* with total N.
GetAllApps ==
  /\ ~crashed
  /\ mainPc = "list"
  /\ IF GetAllAppsErr(listErr)
     THEN /\ crashed' = TRUE
          /\ UNCHANGED <<res, bar, mainPc>>
     ELSE /\ res' = listing
          /\ bar' = [bar EXCEPT !.total = Len(listing)]
          /\ mainPc' = "loop"
          /\ UNCHANGED crashed
  /\ UNCHANGED <<listing, listErr, hung, backend, idx, current, wgCount, pc,
                 stats, stat, rd, appStats, table>>

\* Variant: the slot test is off by one.
CanAddOffByOne(cur) == cur <= PoolSize

\* sizedwaitgroup.Add blocks while all slots are taken.
CanAdd(cur) == cur < PoolSize

\* Lines 98-102: wg.Add() and the go statement for the next workload.
Dispatch ==
  /\ ~crashed
  /\ mainPc = "loop"
  /\ idx <= Len(res)
  /\ CanAdd(current)
  /\ current' = current + 1
  /\ wgCount' = wgCount + 1
  /\ pc' = [pc EXCEPT ![idx] = "fetch"]
  /\ idx' = idx + 1
  /\ UNCHANGED <<listing, listErr, hung, backend, mainPc, res, stats, stat,
                 rd, appStats,
                 bar, table, crashed>>

\* Variant: the goroutine reads the loop variable app, which the range
\* loop has already moved on, instead of its own parameter.
cfAppLoopVar(i) == res[IF idx <= Len(res) THEN idx ELSE Len(res)]

\* Lines 102 and 135: the element is passed to the goroutine as the
\* parameter cfApp when the go statement runs.
cfAppOf(i) == res[i]

\* Line 105: the call of GetAppStats returns, unless the platform never
\* answers it.  A nil Metadata panics.
Fetch(i) ==
  /\ ~crashed
  /\ pc[i] = "fetch"
  /\ IF cfAppOf(i).Metadata = <<>> THEN TRUE
     ELSE cfAppOf(i).Metadata[1].Guid \notin hung
  /\ IF cfAppOf(i).Metadata = <<>>
     THEN /\ crashed' = TRUE
          /\ UNCHANGED <<pc, stats>>
     ELSE /\ stats' = [stats EXCEPT ![i] = <<GetAppStats(cfAppOf(i).Metadata[1].Guid)>>]
          /\ pc' = [pc EXCEPT ![i] = "incr"]
          /\ UNCHANGED crashed
  /\ UNCHANGED <<listing, listErr, hung, backend, mainPc, res, idx, current,
                 wgCount, stat,
                 rd, appStats, bar, table>>

\* Variant: the increment sits after the error return.
IncrementUnlessErr(i) ==
  /\ ~crashed
  /\ pc[i] = "incr"
  /\ bar' = IF stats[i][1].err THEN bar ELSE [bar EXCEPT !.current = @ + 1]
  /\ pc' = [pc EXCEPT ![i] = "summ"]
  /\ UNCHANGED <<listing, listErr, hung, backend, mainPc, res, idx, current,
                 wgCount, stats,
                 stat, rd, appStats, table, crashed>>

\* Line 106: pb.Increment(), an atomic add.
Increment(i) ==
  /\ ~crashed
  /\ pc[i] = "incr"
  /\ bar' = [bar EXCEPT !.current = @ + 1]
  /\ pc' = [pc EXCEPT ![i] = "summ"]
  /\ UNCHANGED <<listing, listErr, hung, backend, mainPc, res, idx, current,
                 wgCount, stats,
                 stat, rd, appStats, table, crashed>>

\* Variant: the error of GetAppStats is ignored.
SkipsIgnoringErr(r) == Lookup(r.m, "0").State # "RUNNING"

\* Variant: any RUNNING instance makes the workload eligible.
SkipsUnlessAnyRunning(r) ==
  r.err \/ \A k \in DOMAIN r.m : r.m[k].State # "RUNNING"

\* Variant: the state of instance "0" is not looked at.
SkipsOnErrOnly(r) == r.err

\* Lines 108-114: the two early returns.
Skips(r) == r.err \/ Lookup(r.m, "0").State # "RUNNING"

\* Lines 123-131 panic on a nil Entity or on an integer division by zero.
Panics(cfApp, r) == cfApp.Entity = <<>> \/ Cardinality(DOMAIN r.m) = 0

\* Lines 108-133: the early returns, the summary, and the read of appStats
\* that append performs.
Summarise(i) ==
  /\ ~crashed
  /\ pc[i] = "summ"
  /\ LET r == stats[i][1]
     IN IF Skips(r)
        THEN /\ pc' = [pc EXCEPT ![i] = "defer"]
             /\ UNCHANGED <<stat, rd, crashed>>
        ELSE IF Panics(cfAppOf(i), r)
        THEN /\ crashed' = TRUE
             /\ UNCHANGED <<pc, stat, rd>>
        ELSE /\ stat' = [stat EXCEPT ![i] = <<MkSummary(cfAppOf(i), r.m)>>]
             /\ rd' = [rd EXCEPT ![i] = <<appStats>>]
             /\ pc' = [pc EXCEPT ![i] = "write"]
             /\ UNCHANGED crashed
  /\ UNCHANGED <<listing, listErr, hung, backend, mainPc, res, idx, current,
                 wgCount, stats,
                 appStats, bar, table>>

\* Line 133: append stores the element after the slice it read and assigns
\* the result to appStats.
AppendWrite(i) ==
  /\ ~crashed
  /\ pc[i] = "write"
  /\ appStats' = Append(rd[i][1], stat[i][1])
  /\ rd' = [rd EXCEPT ![i] = <<>>]
  /\ pc' = [pc EXCEPT ![i] = "defer"]
  /\ UNCHANGED <<listing, listErr, hung, backend, mainPc, res, idx, current,
                 wgCount, stats,
                 stat, bar, table, crashed>>

\* Variant: Done decrements the counter but keeps the slot.
DoneKeepsSlot(i) ==
  /\ ~crashed
  /\ pc[i] = "defer"
  /\ wgCount' = wgCount - 1
  /\ pc' = [pc EXCEPT ![i] = "done"]
  /\ UNCHANGED <<listing, listErr, hung, backend, mainPc, res, idx, current,
                 stats, stat, rd, appStats, bar, table, crashed>>

\* Line 103: the deferred wg.Done().
Done(i) ==
  /\ ~crashed
  /\ pc[i] = "defer"
  /\ current' = current - 1
  /\ wgCount' = wgCount - 1
  /\ pc' = [pc EXCEPT ![i] = "done"]
  /\ UNCHANGED <<listing, listErr, hung, backend, mainPc, res, idx, stats,
                 stat, rd,
                 appStats, bar, table, crashed>>

\* Variant: Wait does not wait for the last unit.
WaitReturnsEarly(c) == c <= 1

\* Variant: Wait returns whatever the counter is.
WaitReturnsIgnoringCount(c) == TRUE

\* WaitGroup.Wait returns when the counter is zero.
WaitReturns(c) == c = 0

\* Line 139: the loop is over and wg.Wait() returns.
Wait ==
  /\ ~crashed
  /\ mainPc = "loop"
  /\ idx > Len(res)
  /\ WaitReturns(wgCount)
  /\ mainPc' = "finish"
  /\ UNCHANGED <<listing, listErr, hung, backend, res, idx, current, wgCount,
                 pc, stats,
                 stat, rd, appStats, bar, table, crashed>>

\* Variant: the finish message is never printed.
FinishPrintMissing ==
  /\ ~crashed
  /\ mainPc = "finish"
  /\ mainPc' = "sort"
  /\ UNCHANGED <<listing, listErr, hung, backend, res, idx, current, wgCount,
                 pc, stats, stat, rd, appStats, bar, table, crashed>>

\* Line 141
FinishPrint ==
  /\ ~crashed
  /\ mainPc = "finish"
  /\ bar' = [bar EXCEPT !.finished = TRUE]
  /\ mainPc' = "sort"
  /\ UNCHANGED <<listing, listErr, hung, backend, res, idx, current, wgCount,
                 pc, stats,
                 stat, rd, appStats, table, crashed>>

\* Line 143
Sort ==
  /\ ~crashed
  /\ mainPc = "sort"
  /\ appStats' = SortByRatio(appStats)
  /\ mainPc' = "render"
  /\ UNCHANGED <<listing, listErr, hung, backend, res, idx, current, wgCount,
                 pc, stats,
                 stat, rd, bar, table, crashed>>

\* Lines 145-152
Render ==
  /\ ~crashed
  /\ mainPc = "render"
  /\ table' = [rows |-> [k \in 1..Len(appStats) |-> toValueList(appStats[k])],
               rendered |-> TRUE]
  /\ mainPc' = "done"
  /\ UNCHANGED <<listing, listErr, hung, backend, res, idx, current, wgCount,
                 pc, stats,
                 stat, rd, appStats, bar, crashed>>

\* One workload with a declared instance count of 0..MaxDeclared, every
\* answer of the bounded stats domain and the three-instance example.
InitDecl ==
  /\ \E n \in 0..MaxDeclared : listing = <<ResourceDecl(1, n)>>
  /\ backend \in [1..1 -> AllResponses \cup {Response(FALSE, ExampleStats)}]
  /\ listErr = FALSE
  /\ hung = {}
  /\ InitRun

\* Up to MaxApps workloads whose requests all answer.
InitLive ==
  /\ \E n \in 0..MaxApps :
       /\ listing = Listing(n)
       /\ backend \in [1..n -> LiveResponses]
  /\ listErr = FALSE
  /\ hung = {}
  /\ InitRun

\* Up to MaxApps workloads of which at most PoolSize have a stats request
\* that never answers.
InitHung ==
  /\ \E n \in 0..MaxApps :
       /\ listing = Listing(n)
       /\ backend \in [1..n -> LiveResponses]
       /\ hung \in {h \in SUBSET (1..n) : Cardinality(h) <= PoolSize}
  /\ listErr = FALSE
  /\ InitRun

\* Up to MaxApps workloads, each with or without Metadata and Entity.
InitNil ==
  /\ \E n \in 0..MaxApps :
       /\ \E hm, he \in [1..n -> BOOLEAN] :
            listing = [i \in 1..n |-> ResourceOpt(i, hm[i], he[i])]
       /\ backend \in [1..n -> LiveResponses]
  /\ listErr = FALSE
  /\ hung = {}
  /\ InitRun

Next ==
  \/ GetAllApps
  \/ Dispatch
  \/ \E i \in Units : Fetch(i)
  \/ \E i \in Units : Increment(i)
  \/ \E i \in Units : Summarise(i)
  \/ \E i \in Units : AppendWrite(i)
  \/ \E i \in Units : Done(i)
  \/ Wait
  \/ FinishPrint
  \/ Sort
  \/ Render

Spec == Init /\ [][Next]_vars

SpecCalc == InitCalc /\ [][Next]_vars

SpecDecl == InitDecl /\ [][Next]_vars

SpecNil == InitNil /\ [][Next]_vars

\* The steps of the goroutine that runs Run.
MainStep == GetAllApps \/ Dispatch \/ Wait \/ FinishPrint \/ Sort \/ Render

\* The steps of the goroutine of unit i.
UnitStep(i) ==
  /\ i \in Units
  /\ Fetch(i) \/ Increment(i) \/ Summarise(i) \/ AppendWrite(i) \/ Done(i)

\* The Go scheduler lets every goroutine that can take a step take it
\* eventually; a stats request that answers at all answers eventually.
Fairness ==
  /\ WF_vars(MainStep)
  /\ \A i \in 1..MaxApps : WF_vars(UnitStep(i))

SpecFair == InitLive /\ [][Next]_vars /\ Fairness

SpecHung == InitHung /\ [][Next]_vars /\ Fairness

\* ------------------------------------------------------------ properties
AfterWait == {"finish", "sort", "render", "done"}

\* Units between wg.Add() and wg.Done().
InFlight == {i \in Units : pc[i] \in {"fetch", "incr", "summ", "write", "defer"}}

\* Units whose GetAppStats call has not returned yet.
Fetching == {i \in Units : pc[i] = "fetch"}

\* Units that have called pb.Increment().
Incremented == {i \in Units : pc[i] \in {"summ", "write", "defer", "done"}}

\* The workload of unit i was fetched without error and its instance "0"
\* is RUNNING.
Eligible(i) == ~backend[i].err /\ Lookup(backend[i].m, "0").State = "RUNNING"

Entries(i) == {k \in 1..Len(appStats) : appStats[k].GUID = i}

Summaries == {appStats[k] : k \in 1..Len(appStats)}

\* C1: at most PoolSize (2) units are between wg.Add() and wg.Done(), and
\* so at most 2 GetAppStats calls are in flight, in every reachable state.
C1_AtMostTwoInFlight ==
  /\ Cardinality(InFlight) <= PoolSize
  /\ Cardinality(Fetching) <= PoolSize
  /\ current = Cardinality(InFlight)

\* Two units are in flight while a third workload waits in wg.Add().
C1_Witness ==
  /\ mainPc = "loop"
  /\ idx <= Len(res)
  /\ Cardinality(Fetching) = PoolSize

\* C2: when wg.Wait() has returned, appStats holds exactly one summary for
\* each eligible workload and none for the others.
C2_NoLostAppend ==
  mainPc \in AfterWait =>
    \A i \in Units : Cardinality(Entries(i)) = (IF Eligible(i) THEN 1 ELSE 0)

\* C3: once wg.Wait() has returned (finish message, sort, render), every
\* dispatched unit has completed, so none fetches, increments or appends.
C3_JoinBeforeSort ==
  mainPc \in AfterWait =>
    /\ idx = Len(res) + 1
    /\ \A i \in Units : pc[i] = "done" /\ stats[i] # <<>> /\ rd[i] = <<>>

\* The table is rendered after three units have run.
C3_Witness ==
  /\ mainPc = "done"
  /\ table.rendered
  /\ Len(listing) = 3
  /\ \A i \in Units : pc[i] = "done"

\* C4: a unit whose GetAppStats returned an error builds no summary and
\* appends nothing, nothing panics, and when wg.Wait() has returned every
\* listed workload has been fetched and every eligible one summarised.
C4_ErrorSkipsOnlyItself ==
  /\ ~crashed
  /\ \A i \in Units :
       (stats[i] # <<>> /\ stats[i][1].err) =>
         stat[i] = <<>> /\ pc[i] # "write" /\ Entries(i) = {}
  /\ mainPc \in AfterWait =>
       \A j \in Units :
         /\ stats[j] = <<backend[j]>>
         /\ Eligible(j) => stat[j] = <<MkSummary(res[j], backend[j].m)>>

\* A run with a failed fetch (whose map is not empty) and an eligible
\* workload renders the table with the eligible workload in it.
C4_Witness ==
  /\ mainPc = "done"
  /\ table.rendered
  /\ \E i, j \in Units :
       /\ backend[i].err /\ DOMAIN backend[i].m # {}
       /\ i < j
       /\ Eligible(j)
       /\ Entries(j) # {}
       /\ Entries(i) = {}

\* C5: a workload whose instance "0" is absent or not RUNNING produces no
\* summary, whatever its other instances report.
C5_NotRunningNoSummary ==
  \A i \in Units :
    (stats[i] # <<>> /\ Lookup(stats[i][1].m, "0").State # "RUNNING") =>
      stat[i] = <<>> /\ pc[i] # "write" /\ Entries(i) = {} /\ ~crashed

\* The run is over for a map without key "0" whose instance "1" is RUNNING
\* and uses memory: the table is empty.
C5_Witness ==
  /\ mainPc = "done"
  /\ Len(listing) = 1
  /\ ~backend[1].err
  /\ DOMAIN backend[1].m = {"1"}
  /\ backend[1].m["1"].State = "RUNNING"
  /\ backend[1].m["1"].Mem > 0
  /\ table.rows = <<>>

\* C6: every summary of the final result has averageUsage > 0 and a finite
\* ratio memoryAllocation / averageUsage.
C6_PositiveAverage ==
  mainPc = "done" =>
    \A k \in 1..Len(appStats) :
      /\ appStats[k].AvgMemoryUse > 0
      /\ IsFinite(appStats[k].Ratio)
      /\ appStats[k].Ratio = Ratio(appStats[k].MemoryAlloc, appStats[k].AvgMemoryUse)

\* C7: the rows handed to the renderer are sorted descending by ratio:
\* a.Ratio >= b.Ratio for every adjacent pair.
C7_SortedDescending ==
  mainPc \in {"render", "done"} =>
    \A k \in 1..(Len(appStats) - 1) :
      FGeq(appStats[k].Ratio, appStats[k + 1].Ratio)

\* C8: a successful fetch with a map of zero instances never reaches the
\* division by len(stats) (no panic) and yields no summary.
C8_ZeroInstancesSkipped ==
  \A i \in Units :
    (stats[i] # <<>> /\ ~stats[i][1].err /\ DOMAIN stats[i][1].m = {}) =>
      ~crashed /\ stat[i] = <<>> /\ pc[i] # "write" /\ Entries(i) = {}

\* A run over one workload with zero instances ends with an empty table.
C8_Witness ==
  /\ mainPc = "done"
  /\ table.rendered
  /\ Len(listing) = 1
  /\ ~backend[1].err
  /\ DOMAIN backend[1].m = {}
  /\ pc[1] = "done"
  /\ table.rows = <<>>

\* C9: the number of Increment calls is the number of units past line 106
\* (one per unit, whatever its outcome), and equals the bar's total N when
\* wg.Wait() has returned.
C9_OneIncrementPerUnit ==
  /\ bar.current = Cardinality(Incremented)
  /\ mainPc \in AfterWait =>
       bar.current = bar.total /\ bar.total = Len(listing)

\* wg.Wait() has returned after a failed fetch, a skipped workload and a
\* summarised one: the bar stands at 3 of 3.
C9_Witness ==
  /\ mainPc = "finish"
  /\ bar.current = 3
  /\ \E i, j, k \in Units :
       /\ backend[i].err
       /\ ~backend[j].err /\ ~Eligible(j)
       /\ Eligible(k) /\ Entries(k) # {}

\* C10: the set of summaries a run ends with is determined by the listing
\* and the stats responses alone: it is the set of the summaries of the
\* eligible workloads, under every schedule.
C10_SameSummarySet ==
  mainPc = "done" =>
    Summaries = {MkSummary(res[i], backend[i].m) : i \in {j \in Units : Eligible(j)}}

\* C11: the bar is started with total N before any increment, all N
\* increments precede the finish message, the finish message precedes the
\* rendering, and the table holds only rows of summaries of workloads that
\* were fetched without error and are RUNNING.
C11_EventOrder ==
  /\ bar.current > 0 => mainPc # "list" /\ bar.total = Len(listing)
  /\ bar.finished => bar.current = Len(listing) /\ mainPc \in {"sort", "render", "done"}
  /\ table.rendered <=> mainPc = "done"
  /\ table.rendered => bar.finished
  /\ ~table.rendered => table.rows = <<>>
  /\ \A k \in 1..Len(table.rows) :
       \E i \in Units :
         /\ Eligible(i)
         /\ table.rows[k] = toValueList(MkSummary(res[i], backend[i].m))

\* The table is rendered with a row after the bar of three workloads, one
\* of them failed, was finished.
C11_Witness ==
  /\ table.rendered
  /\ bar.finished
  /\ bar.current = 3
  /\ Len(table.rows) >= 1
  /\ \E i \in Units : backend[i].err

\* C12: a failed listing is not propagated: Run does not panic on it, goes
\* on with the list the parse left (empty or not), starts the bar with its
\* length, dispatches no more units than it lists and renders the table
\* with rows of available summaries only.
C12_ListingFailureSwallowed ==
  listErr =>
    /\ ~crashed
    /\ mainPc # "list" => res = listing /\ bar.total = Len(res)
    /\ Cardinality({i \in Units : pc[i] # "idle"}) <= Len(res)
    /\ mainPc = "done" =>
         /\ table.rendered
         /\ Len(table.rows) <= Len(res)
         /\ \A k \in 1..Len(table.rows) : \E i \in Units : table.rows[k][1] = i

\* A run whose listing failed and left no workload ends with the bar
\* finished and an empty table rendered.
C12_Witness ==
  /\ listErr
  /\ res = <<>>
  /\ mainPc = "done"
  /\ bar.finished
  /\ table.rendered
  /\ table.rows = <<>>

\* C13: the summary a unit builds has the quota of instance "0" as
\* allocation, the integer quotient of the usage sum by the number of map
\* entries as average, whatever the declared instance count, and
\* allocation / average as ratio; usages 100, 200, 300 with quota 600 give
\* average 200 and ratio 3.
C13_AverageOverReportedInstances ==
  \A i \in Units :
    stat[i] # <<>> =>
      LET s == stat[i][1]
          m == stats[i][1].m
          n == Cardinality(DOMAIN m)
          total == Lookup(m, "0").Mem + Lookup(m, "1").Mem + Lookup(m, "2").Mem
      IN /\ n > 0
         /\ s.MemoryAlloc = m["0"].MemQuota
         /\ s.AvgMemoryUse * n <= total
         /\ total < (s.AvgMemoryUse + 1) * n
         /\ s.Ratio.num = s.MemoryAlloc
         /\ s.Ratio.den = s.AvgMemoryUse
         /\ s.Instances = res[i].Entity[1].Instances
         /\ m = ExampleStats =>
              /\ s.AvgMemoryUse = 200
              /\ FGeq(s.Ratio, Ratio(3, 1))
              /\ FGeq(Ratio(3, 1), s.Ratio)

\* The example map under a declared instance count of 1 is rendered with
\* allocation 600, average 200 and ratio 3.000000.
C13_Witness ==
  /\ mainPc = "done"
  /\ backend[1].m = ExampleStats
  /\ res[1].Entity[1].Instances = 1
  /\ Len(table.rows) = 1
  /\ table.rows[1][3] = 600
  /\ table.rows[1][4] = 200
  /\ table.rows[1][5] = <<3, 0>>

\* The dispatcher is inside wg.Add() with every slot taken.
Blocked == mainPc = "loop" /\ idx <= Len(res) /\ current = PoolSize

\* C14: when every stats request answers, every listed workload is
\* eventually dispatched and completed, wg.Wait() returns and the table is
\* rendered, for N = 0 as for N > 2; a dispatcher blocked in wg.Add() is
\* always eventually released.
C14_Terminates ==
  /\ <>[](mainPc = "done" /\ table.rendered /\ \A i \in Units : pc[i] = "done")
  /\ Blocked ~> (current < PoolSize /\ mainPc = "loop")

\* The dispatcher is blocked with a workload still to dispatch.
C14_Witness ==
  /\ Blocked
  /\ Len(res) > PoolSize
  /\ hung = {}
  /\ \A i \in InFlight : pc[i] = "defer"

\* C15: a unit whose stats request never answers keeps its slot for ever
\* and the run never gets past wg.Wait(); with one such unit every other
\* workload is still eventually dispatched and completed; once two such
\* units hold the two slots no later workload is ever dispatched.
C15_HungCallHoldsSlot ==
  /\ [](hung # {} => mainPc \notin AfterWait)
  /\ [](\A h \in hung :
         /\ pc[h] \in {"idle", "fetch"}
         /\ pc[h] = "fetch" => current >= 1 /\ wgCount >= 1)
  /\ <>[](Cardinality(hung) = 1 =>
            /\ \A h \in hung : pc[h] = "fetch"
            /\ \A j \in Units \ hung : pc[j] = "done")
  /\ [](Cardinality(hung) = PoolSize =>
          \A j \in Units : (\A h \in hung : h < j) => pc[j] = "idle")

\* The first request never answers; the two other workloads went through
\* the remaining slot and the dispatcher sits in wg.Wait().
C15_Witness ==
  /\ hung = {1}
  /\ Len(res) = 3
  /\ pc[1] = "fetch"
  /\ pc[2] = "done"
  /\ pc[3] = "done"
  /\ mainPc = "loop"
  /\ current = 1

\* C16: each workload is dispatched once and contributes at most one
\* summary, summaries <= increments <= dispatched units <= N in every
\* state, and while units run a summary that is in appStats stays there
\* unchanged through every later append.
C16_WrittenOnceNeverRemoved ==
  /\ [](/\ Len(appStats) <= bar.current
        /\ bar.current <= idx - 1
        /\ idx - 1 <= Len(listing)
        /\ idx - 1 = Cardinality({i \in Units : pc[i] # "idle"})
        /\ \A i \in Units : Cardinality(Entries(i)) <= 1)
  /\ [][mainPc = "loop" =>
          \A k \in 1..Len(appStats) :
            k <= Len(appStats') /\ appStats'[k] = appStats[k]]_vars

\* C17: a listed resource with a nil Metadata or Entity does not abort the
\* batch: no unit panics, and when wg.Wait() has returned every unit has
\* completed.
C17_NilResourceDoesNotAbort ==
  /\ ~crashed
  /\ mainPc \in AfterWait => \A i \in Units : pc[i] = "done"

\* C18: what a unit fetched is the answer for the GUID of its own
\* descriptor, and the summary it built carries the name, GUID, space and
\* declared instance count of that descriptor and the allocation, average
\* and ratio of its own stats map, in every interleaving.
C18_UnitOwnsItsData ==
  \A i \in Units :
    /\ stats[i] # <<>> => stats[i][1] = backend[listing[i].Metadata[1].Guid]
    /\ stat[i] # <<>> =>
         LET s == stat[i][1]
             m == stats[i][1].m
         IN /\ s.GUID = listing[i].Metadata[1].Guid
            /\ s.Name = listing[i].Entity[1].Name
            /\ s.Space = listing[i].Entity[1].SpaceGuid
            /\ s.Instances = listing[i].Entity[1].Instances
            /\ s.MemoryAlloc = Lookup(m, "0").MemQuota
            /\ s.AvgMemoryUse = TotalUsage(m) \div Cardinality(DOMAIN m)
            /\ s.Ratio = Ratio(s.MemoryAlloc, s.AvgMemoryUse)

\* Two units are about to append summaries of different workloads with
\* different allocations while a third workload waits in the loop.
C18_Witness ==
  /\ Len(res) = 3
  /\ idx = 3
  /\ pc[1] = "write"
  /\ pc[2] = "write"
  /\ stat[1][1].GUID = 1
  /\ stat[2][1].GUID = 2
  /\ stat[1][1].MemoryAlloc # stat[2][1].MemoryAlloc

====
